---- MODULE Spec2Model ----
(***************************************************************************)
(* Fractal-Harmonic Transform validation suite                             *)
(* (src/code/fht_validation_suite.py).                                      *)
(*                                                                         *)
(* The program computes over IEEE-754 doubles held in numpy arrays.  The   *)
(* model keeps the structure of a double (NaN, the two infinities, finite  *)
(* values that overflow to an infinity and underflow to zero) and scales   *)
(* it down: a finite double is a fixed-point number, an integer count of   *)
(* 1/Scale units, with magnitude at most MaxFloat units.  log, exp, sqrt   *)
(* and ** are computed on these numbers to the resolution of the format.   *)
(***************************************************************************)
EXTENDS Integers, Sequences, FiniteSets, TLC

\* ------------------------------------------------------------------------
\* The float format
\* ------------------------------------------------------------------------

\* units per 1.0: the resolution of a model float
Scale == 100
\* the largest finite magnitude, in units (sys.float_info.max)
MaxFloat == 20000000
\* internal resolution of the series for log and exp (units per 1.0)
Fine == 10000
\* ln 2 in Fine units
Ln2Fine == 6931

Fin(n) == [k |-> "fin", v |-> n]
NaN == [k |-> "nan", v |-> 0]
PosInf == [k |-> "inf", v |-> 1]
NegInf == [k |-> "inf", v |-> -1]

IsNaN(x) == x.k = "nan"
IsInf(x) == x.k = "inf"
IsFin(x) == x.k = "fin"

\* The element of a one-element set.  The({e(x) : x \in {v}}) is e(v) with v
\* evaluated once.
The(S) == CHOOSE x \in S : TRUE

IAbs(n) == IF n < 0 THEN -n ELSE n
ISign(n) == IF n < 0 THEN -1 ELSE IF n > 0 THEN 1 ELSE 0
\* n / d rounded to the nearest integer (d > 0), halves away from zero
RoundDiv(n, d) == ISign(n) * ((IAbs(n) + d \div 2) \div d)

\* a computed integer result as a float: overflow gives an infinity
Norm(n) == IF n > MaxFloat THEN PosInf ELSE IF n < -MaxFloat THEN NegInf ELSE Fin(n)
InfOf(s) == IF s < 0 THEN NegInf ELSE PosInf
\* the sign of a non-NaN float as -1, 0, 1
SgnOf(x) == ISign(x.v)

FNeg(x) == IF IsNaN(x) THEN NaN ELSE [k |-> x.k, v |-> -x.v]

\* a + b
FAdd(a, b) ==
    IF IsNaN(a) \/ IsNaN(b) THEN NaN
    ELSE IF IsInf(a) /\ IsInf(b) THEN (IF a.v = b.v THEN a ELSE NaN)
    ELSE IF IsInf(a) THEN a
    ELSE IF IsInf(b) THEN b
    ELSE Norm(a.v + b.v)

FSub(a, b) == FAdd(a, FNeg(b))

\* a * b
FMul(a, b) ==
    IF IsNaN(a) \/ IsNaN(b) THEN NaN
    ELSE IF a.v = 0 \/ b.v = 0
         THEN (IF IsInf(a) \/ IsInf(b) THEN NaN ELSE Fin(0))
    ELSE IF IsInf(a) \/ IsInf(b) THEN InfOf(SgnOf(a) * SgnOf(b))
    ELSE IF IAbs(b.v) > (MaxFloat * Scale + Scale \div 2) \div IAbs(a.v)
         THEN InfOf(SgnOf(a) * SgnOf(b))
    ELSE Norm(RoundDiv(a.v * b.v, Scale))

\* a / b on numpy scalars: a zero divisor gives an infinity or NaN, not an
\* exception
FDiv(a, b) ==
    IF IsNaN(a) \/ IsNaN(b) THEN NaN
    ELSE IF IsInf(a) /\ IsInf(b) THEN NaN
    ELSE IF IsInf(a) THEN InfOf(a.v * (IF b.v < 0 THEN -1 ELSE 1))
    ELSE IF IsInf(b) THEN Fin(0)
    ELSE IF b.v = 0 THEN (IF a.v = 0 THEN NaN ELSE InfOf(a.v))
    ELSE Norm(RoundDiv(a.v * Scale, IAbs(b.v)) * ISign(b.v))

\* a < b, a > b: every comparison with NaN is false
FLt(a, b) ==
    IF IsNaN(a) \/ IsNaN(b) THEN FALSE
    ELSE IF IsInf(a) THEN a.v < 0 /\ ~(IsInf(b) /\ b.v < 0)
    ELSE IF IsInf(b) THEN b.v > 0
    ELSE a.v < b.v
FGt(a, b) == FLt(b, a)

\* np.abs, np.sign on one element
FAbs(x) == IF IsNaN(x) THEN NaN ELSE [k |-> x.k, v |-> IAbs(x.v)]
FSign(x) == IF IsNaN(x) THEN NaN ELSE Fin(ISign(x.v) * Scale)

\* np.maximum on one element: NaN propagates
FMaximum(a, b) == IF IsNaN(a) \/ IsNaN(b) THEN NaN ELSE IF FLt(a, b) THEN b ELSE a
\* Python's min(a, b): b if b < a else a
PyMin(a, b) == IF FLt(b, a) THEN b ELSE a

\* ------------------------------------------------------------------------
\* sqrt, log, exp and ** on the float format
\* ------------------------------------------------------------------------

RECURSIVE ISqrtBits(_, _, _)
\* the largest r with r * r <= n, found bit by bit from the top bit b down
ISqrtBits(n, r, b) ==
    IF b = 0 THEN r
    ELSE ISqrtBits(n, IF r + b <= 46340 /\ (r + b) * (r + b) <= n THEN r + b ELSE r,
                   b \div 2)
ISqrt(n) == ISqrtBits(n, 0, 32768)

\* np.sqrt on one element
FSqrt(x) ==
    IF IsNaN(x) THEN NaN
    ELSE IF x.v < 0 THEN NaN
    ELSE IF IsInf(x) THEN PosInf
    ELSE Fin(ISqrt(x.v * Scale))

RECURSIVE Pow2(_)
Pow2(k) == IF k <= 0 THEN 1 ELSE 2 * Pow2(k - 1)

RECURSIVE Log2Floor(_, _)
\* the k with 2^k <= n / Scale < 2^(k+1), for n > 0, searched from k
Log2Floor(n, k) ==
    IF k >= 0
    THEN (IF n >= Scale * Pow2(k + 1) THEN Log2Floor(n, k + 1)
          ELSE IF n < Scale * Pow2(k) THEN Log2Floor(n, k - 1)
          ELSE k)
    ELSE (IF n * Pow2(-k) < Scale THEN Log2Floor(n, k - 1) ELSE k)

\* ln(n / Scale) in Fine units, for n > 0: n = 2^k * m with 1 <= m < 2,
\* ln m = 2 atanh((m - 1) / (m + 1)) by its series
LnFine(n) ==
    LET k == Log2Floor(n, 0)
        m == IF k >= 0 THEN (n * (Fine \div Scale)) \div Pow2(k)
                       ELSE n * (Fine \div Scale) * Pow2(-k)
        z == ((m - Fine) * Fine) \div (m + Fine)
        z2 == (z * z) \div Fine
        z3 == (z * z2) \div Fine
        z5 == (z3 * z2) \div Fine
        z7 == (z5 * z2) \div Fine
    IN  k * Ln2Fine + 2 * (z + z3 \div 3 + z5 \div 5 + z7 \div 7)

\* np.log on one element: log(0) = -inf, log of a negative number is NaN
FLog(x) ==
    IF IsNaN(x) THEN NaN
    ELSE IF x.v < 0 THEN NaN
    ELSE IF IsInf(x) THEN PosInf
    ELSE IF x.v = 0 THEN NegInf
    ELSE Fin(RoundDiv(LnFine(x.v), Fine \div Scale))

\* exp(y / Fine) as a float: y = k ln 2 + r with 0 <= r < ln 2, exp r by its
\* series, the result 2^k exp r
ExpFine(y) ==
    LET k == y \div Ln2Fine
        r == y - k * Ln2Fine
        t2 == (r * r) \div (2 * Fine)
        t3 == (t2 * r) \div (3 * Fine)
        t4 == (t3 * r) \div (4 * Fine)
        t5 == (t4 * r) \div (5 * Fine)
        t6 == (t5 * r) \div (6 * Fine)
        e == Fine + r + t2 + t3 + t4 + t5 + t6
        d == Fine \div Scale
    IN  IF k > Log2Floor(MaxFloat, 0) THEN PosInf
        ELSE IF k >= 7 THEN Norm(RoundDiv(e * 128, d) * Pow2(k - 7))
        ELSE IF k >= 0 THEN Norm(RoundDiv(e * Pow2(k), d))
        ELSE IF k >= -14 THEN Fin(RoundDiv(e, d * Pow2(-k)))
        ELSE Fin(0)

\* a ** e for a >= 0 on one element, as exp(e ln a); 0 ** e = 0 for e > 0,
\* x ** 0 = 1
FPow(a, e) ==
    IF IsNaN(a) \/ IsNaN(e) THEN NaN
    ELSE IF IsFin(e) /\ e.v = 0 THEN Fin(Scale)
    ELSE IF IsInf(a) THEN (IF e.v > 0 THEN PosInf ELSE Fin(0))
    ELSE IF a.v = 0 THEN (IF e.v > 0 THEN Fin(0) ELSE PosInf)
    ELSE IF IsInf(e) THEN
         (IF a.v = Scale THEN Fin(Scale)
          ELSE IF (a.v > Scale) = (e.v > 0) THEN PosInf ELSE Fin(0))
    ELSE LET l == LnFine(a.v)
         IN  IF IAbs(l) > (MaxFloat * Scale) \div IAbs(e.v) THEN
                 (IF ISign(l) * ISign(e.v) > 0 THEN PosInf ELSE Fin(0))
             ELSE ExpFine(RoundDiv(e.v * l, Scale))

\* ------------------------------------------------------------------------
\* numpy reductions and element-wise operations on arrays (sequences)
\* ------------------------------------------------------------------------

\* an int as a float
IntToFloat(n) == Norm(n * Scale)

NpAbs(a) == [i \in 1..Len(a) |-> FAbs(a[i])]

RECURSIVE SumFrom(_, _, _)
\* the sum of a[lo..hi], pairwise: the lower half plus the upper half
SumFrom(a, lo, hi) ==
    IF lo > hi THEN Fin(0)
    ELSE IF lo = hi THEN a[lo]
    ELSE FAdd(SumFrom(a, lo, (lo + hi) \div 2), SumFrom(a, ((lo + hi) \div 2) + 1, hi))
\* np.sum: the sum of an empty array is 0.0
NpSum(a) == SumFrom(a, 1, Len(a))
\* np.mean: the mean of an empty array is 0.0 / 0 = NaN (a warning, no exception)
NpMean(a) == FDiv(NpSum(a), IntToFloat(Len(a)))
\* np.std: sqrt(mean(abs(a - mean(a)) ** 2)), the population standard deviation
NpStd(a) ==
    The({FSqrt(NpMean([i \in 1..Len(a) |-> FMul(FSub(a[i], m), FSub(a[i], m))]))
            : m \in {NpMean(a)}})

\* np.clip(x, -1, 1) on one element: NaN stays NaN
Clip1(x) ==
    IF IsNaN(x) THEN NaN
    ELSE IF FGt(x, Fin(Scale)) THEN Fin(Scale)
    ELSE IF FLt(x, Fin(-Scale)) THEN Fin(-Scale)
    ELSE x

\* np.corrcoef(x, y)[0, 1] for two arrays of one length n: the covariance
\* matrix with divisor n - 1, divided by the two standard deviations (the
\* square roots of its diagonal), clipped to [-1, 1]
Corrcoef01(x, y) ==
    The({LET n == Len(x)
             dx == [i \in 1..n |-> FSub(x[i], mx)]
             dy == [i \in 1..n |-> FSub(y[i], my)]
             fact == IntToFloat(n - 1)
             cxy == FDiv(NpSum([i \in 1..n |-> FMul(dx[i], dy[i])]), fact)
             cxx == FDiv(NpSum([i \in 1..n |-> FMul(dx[i], dx[i])]), fact)
             cyy == FDiv(NpSum([i \in 1..n |-> FMul(dy[i], dy[i])]), fact)
         IN  Clip1(FDiv(FDiv(cxy, FSqrt(cxx)), FSqrt(cyy)))
            : mx \in {NpMean(x)}, my \in {NpMean(y)}})

\* ------------------------------------------------------------------------
\* class FractalHarmonicTransform
\* ------------------------------------------------------------------------

\* the absent argument (None)
None == [k |-> "none", v |-> 0]

\* the defaults of __init__: beta = 1.0, epsilon = 1e-12 (here the second
\* smallest positive float, so that positive values below epsilon exist)
DefaultBeta == Fin(Scale)
DefaultEpsilon == Fin(2)
\* the default of transform: amplification = 1.0
DefaultAmplification == Fin(Scale)

\* FractalHarmonicTransform.__init__(alpha, beta, epsilon)
FHTNew(alpha, beta, epsilon) ==
    LET phi == FDiv(FAdd(Fin(Scale), FSqrt(Fin(5 * Scale))), Fin(2 * Scale))
    IN  [phi |-> phi,
         alpha |-> IF alpha # None THEN alpha ELSE phi,
         beta |-> beta,
         epsilon |-> epsilon,
         stability_weight |-> Fin((79 * Scale) \div 100),
         breakthrough_weight |-> Fin((21 * Scale) \div 100)]

\* the mutant of Clamp: no clamping
ClampNone(self, d) == d
\* data = np.maximum(data, self.epsilon)
Clamp(self, d) == [i \in 1..Len(d) |-> FMaximum(d[i], self.epsilon)]
\* log_term = np.log(data + self.epsilon)
LogTerm(self, d) == [i \in 1..Len(d) |-> FLog(FAdd(d[i], self.epsilon))]
\* the mutant of PhiPower: the configured alpha as the exponent
PhiPowerAlpha(self, l) == [i \in 1..Len(l) |-> FPow(FAbs(l[i]), self.alpha)]
\* phi_power = np.abs(log_term) ** self.phi
PhiPower(self, l) == [i \in 1..Len(l) |-> FPow(FAbs(l[i]), self.phi)]
\* sign_term = np.sign(log_term)
SignTerm(l) == [i \in 1..Len(l) |-> FSign(l[i])]
\* result = self.alpha * phi_power * sign_term * amplification + self.beta
Combine(self, pp, sg, amplification) ==
    [i \in 1..Len(pp) |->
        FAdd(FMul(FMul(FMul(self.alpha, pp[i]), sg[i]), amplification), self.beta)]
\* a mutant of HandleEdgeCases: no replacement
HandleEdgeCasesNone(self, r) == r
\* a mutant of HandleEdgeCases: one degenerate element resets the whole array
HandleEdgeCasesAny(self, r) ==
    IF \E i \in 1..Len(r) : IsNaN(r[i]) \/ IsInf(r[i])
    THEN [i \in 1..Len(r) |-> self.beta]
    ELSE r
\* result = np.where(np.isnan(result) | np.isinf(result), self.beta, result)
HandleEdgeCases(self, r) ==
    [i \in 1..Len(r) |-> IF IsNaN(r[i]) \/ IsInf(r[i]) THEN self.beta ELSE r[i]]

\* FractalHarmonicTransform.transform, with its local variables
TransformLocals(self, data, amplification) ==
    The({The({[log_term |-> log_term, phi_power |-> phi_power, sign_term |-> sign_term,
               result |-> HandleEdgeCases(self,
                              Combine(self, phi_power, sign_term, amplification))]
                 : phi_power \in {PhiPower(self, log_term)},
                   sign_term \in {SignTerm(log_term)}})
            : log_term \in {LogTerm(self, Clamp(self, data))}})

transform(self, data, amplification) == TransformLocals(self, data, amplification).result

\* the mutant of CapScore: no cap
CapScoreNone(c) == c
\* 'consciousness_score': min(consciousness_score, 1.0)
CapScore(c) == PyMin(c, Fin(Scale))

\* a mutant of BreakthroughScore: the division without its guard
BreakthroughScoreUnguarded(transformed) ==
    FDiv(NpStd(transformed), NpMean(NpAbs(transformed)))
\* breakthrough_score: np.std(transformed) / np.mean(np.abs(transformed)) if
\* that mean is > 0, else 0.0
BreakthroughScore(transformed) ==
    The({IF FGt(meanAbs, Fin(0)) THEN FDiv(NpStd(transformed), meanAbs) ELSE Fin(0)
            : meanAbs \in {NpMean(NpAbs(transformed))}})

\* FractalHarmonicTransform.calculate_consciousness_score: the returned dict,
\* for arguments on which np.corrcoef does not raise
calculate_consciousness_score(self, original, transformed) ==
    The({[consciousness_score |->
             CapScore(FAdd(FMul(self.stability_weight, stability_score),
                           FMul(self.breakthrough_weight, breakthrough_score))),
          stability_score |-> stability_score,
          breakthrough_score |-> breakthrough_score,
          correlation |-> IF Len(original) > 1
                          THEN Corrcoef01(original, transformed)
                          ELSE Fin(0)]
            : stability_score \in
                  {FDiv(NpSum(NpAbs(transformed)), IntToFloat(Len(original) * 4))},
              breakthrough_score \in {BreakthroughScore(transformed)}})

\* np.corrcoef(original, transformed) stacks the two arrays and raises
\* ValueError when their lengths differ; it is called only if len(original) > 1
CorrcoefRaises(original, transformed) ==
    Len(original) > 1 /\ Len(original) # Len(transformed)

\* a call of calculate_consciousness_score: the exception raised or the dict
\* returned
score_call(self, original, transformed) ==
    IF CorrcoefRaises(original, transformed)
    THEN [exc |-> "ValueError", ret |-> None]
    ELSE [exc |-> "none",
          ret |-> calculate_consciousness_score(self, original, transformed)]

\* ------------------------------------------------------------------------
\* class FractalHarmonicTransform of mathematical_derivations.py
\* ------------------------------------------------------------------------

\* FractalHarmonicTransform.__init__(): no arguments, the parameters fixed
MdFHTNew ==
    LET phi == FDiv(FAdd(Fin(Scale), FSqrt(Fin(5 * Scale))), Fin(2 * Scale))
    IN  [phi |-> phi,
         alpha |-> phi,
         beta |-> Fin(Scale),
         epsilon |-> DefaultEpsilon,
         stability_weight |-> Fin((79 * Scale) \div 100),
         breakthrough_weight |-> Fin((21 * Scale) \div 100)]

\* a mutant of MdCombine: the sign of the log term is dropped
MdCombineNoSign(self, pp, sg) ==
    [i \in 1..Len(pp) |-> FAdd(FMul(self.alpha, pp[i]), self.beta)]
\* result = self.alpha * phi_power * sign_term + self.beta
MdCombine(self, pp, sg) ==
    [i \in 1..Len(pp) |-> FAdd(FMul(FMul(self.alpha, pp[i]), sg[i]), self.beta)]

\* FractalHarmonicTransform.transform(data): no amplification argument
Md_transform(self, data) ==
    The({The({[i \in 1..Len(result) |->
                  IF IsNaN(result[i]) \/ IsInf(result[i]) THEN self.beta ELSE result[i]]
                 : result \in {MdCombine(self,
                                  [i \in 1..Len(log_term) |->
                                      FPow(FAbs(log_term[i]), self.phi)],
                                  [i \in 1..Len(log_term) |-> FSign(log_term[i])])}})
            : log_term \in {[i \in 1..Len(data) |->
                               FLog(FAdd(FMaximum(data[i], self.epsilon),
                                         self.epsilon))]}})

\* FractalHarmonicTransform.calculate_consciousness_score: the exception
\* raised or the dict returned
Md_score_call(self, original, transformed) ==
    IF Len(original) > 1 /\ Len(original) # Len(transformed)
    THEN [exc |-> "ValueError", ret |-> None]
    ELSE The({[exc |-> "none",
               ret |-> [consciousness_score |->
                           PyMin(FAdd(FMul(self.stability_weight, stability_score),
                                      FMul(self.breakthrough_weight, breakthrough_score)),
                                 Fin(Scale)),
                        stability_score |-> stability_score,
                        breakthrough_score |-> breakthrough_score,
                        correlation |-> IF Len(original) > 1
                                        THEN Corrcoef01(original, transformed)
                                        ELSE Fin(0)]]
                 : stability_score \in
                       {FDiv(NpSum(NpAbs(transformed)), IntToFloat(Len(original) * 4))},
                   breakthrough_score \in
                       {The({IF FGt(m, Fin(0)) THEN FDiv(NpStd(transformed), m)
                             ELSE Fin(0) : m \in {NpMean(NpAbs(transformed))}})}})

\* ------------------------------------------------------------------------
\* class ValidationSuite: the data generators
\* ------------------------------------------------------------------------

RECURSIVE FibGrow(_, _)
\* k times fib.append(fib[-1] + fib[-2]) (the first half of the appends, then
\* the rest)
FibGrow(fib, k) ==
    IF k <= 0 THEN fib
    ELSE IF k = 1 THEN Append(fib, fib[Len(fib)] + fib[Len(fib) - 1])
    ELSE The({FibGrow(half, k - k \div 2) : half \in {FibGrow(fib, k \div 2)}})

\* fib = [1, 1]; while len(fib) < size: fib.append(fib[-1] + fib[-2])
FibList(fib, size) == FibGrow(fib, size - Len(fib))

\* lst[:n] for n >= 0
Take(lst, n) == SubSeq(lst, 1, IF n < Len(lst) THEN n ELSE Len(lst))

\* for j in range(j, upper_bound + 1, i): sieve[j] = False
\* (the indices j, j + i, j + 2 i, ... up to upper_bound are struck)
SieveInner(sieve, j, i, upper_bound) ==
    [k \in 0..upper_bound |-> IF k >= j /\ (k - j) % i = 0 THEN FALSE ELSE sieve[k]]

RECURSIVE SieveOuter(_, _, _, _)
\* for i in range(i, last + 1): if sieve[i]: strike the multiples from i * i
\* (the lower half of the range, then the upper half)
SieveOuter(sieve, i, lastI, upper_bound) ==
    IF i > lastI THEN sieve
    ELSE IF i = lastI
    THEN (IF sieve[i] THEN SieveInner(sieve, i * i, i, upper_bound) ELSE sieve)
    ELSE The({SieveOuter(half, ((i + lastI) \div 2) + 1, lastI, upper_bound)
                : half \in {SieveOuter(sieve, i, (i + lastI) \div 2, upper_bound)}})

RECURSIVE Enumerate(_, _, _)
\* [i for i, is_prime in enumerate(sieve) if is_prime], over the indices i
\* to upper_bound in ascending order (the lower half, then the upper half)
Enumerate(sieve, i, upper_bound) ==
    IF i > upper_bound THEN << >>
    ELSE IF i = upper_bound THEN (IF sieve[i] THEN <<i>> ELSE << >>)
    ELSE LET mid == (i + upper_bound) \div 2
         IN  Enumerate(sieve, i, mid) \o Enumerate(sieve, mid + 1, upper_bound)

\* int(x) for a finite float x >= 0
IntOf(x) == x.v \div Scale

\* the mutant of PrimeUpperBound: the sieve reaches n only
PrimeUpperBoundN(n) == n
\* upper_bound = int(n * log(n) + n * log(log(n))) if n > 6 else 20
PrimeUpperBound(n) ==
    IF n > 6
    THEN LET fn == IntToFloat(n)
         IN  IntOf(FAdd(FMul(fn, FLog(fn)), FMul(fn, FLog(FLog(fn)))))
    ELSE 20

\* ValidationSuite._generate_primes(n)
generate_primes(n) ==
    IF n <= 0 THEN << >>
    ELSE LET upper_bound == PrimeUpperBound(n)
             sieve0 == [i \in 0..upper_bound |-> i >= 2]
             sieve == SieveOuter(sieve0, 2, ISqrt(upper_bound), upper_bound)
         IN  Take(Enumerate(sieve, 0, upper_bound), n)

\* SyntheticDataGenerator._generate_primes (synthetic_validation_data.py):
\* upper_bound = 30 if n < 10, else int(n * log(n) + n * log(log(n)))
SdgPrimeUpperBound(n) ==
    IF n < 10 THEN 30
    ELSE LET fn == IntToFloat(n)
         IN  IntOf(FAdd(FMul(fn, FLog(fn)), FMul(fn, FLog(FLog(fn)))))

\* SyntheticDataGenerator._generate_primes(n)
Sdg_generate_primes(n) ==
    IF n <= 0 THEN << >>
    ELSE LET upper_bound == SdgPrimeUpperBound(n)
             sieve0 == [i \in 0..upper_bound |-> i >= 2]
             sieve == SieveOuter(sieve0, 2, ISqrt(upper_bound), upper_bound)
         IN  Take(Enumerate(sieve, 0, upper_bound), n)

\* np.random.seed(42); np.random.uniform(0, 100, size): the first values of
\* the seeded generator, in units of 1/Scale
RandomUniform42 ==
    <<3745, 9507, 7320, 5987, 1560, 1560, 581, 8662, 6011, 7081,
      206, 9699, 8324, 2123, 1818, 1834, 3042, 5248, 4319, 2912,
      6119, 1395, 2921, 3664, 4561, 7852, 1997, 5142, 5924, 465>>

\* np.array(ints, dtype=float): an int beyond the float range raises
\* OverflowError
IntsToFloats(ints) ==
    IF \E i \in 1..Len(ints) : ints[i] > MaxFloat \div Scale
    THEN [exc |-> "OverflowError", data |-> << >>]
    ELSE [exc |-> "none", data |-> [i \in 1..Len(ints) |-> IntToFloat(ints[i])]]

\* np.linspace(1, 100, size)
Linspace(size) ==
    IF size = 1 THEN <<Fin(Scale)>>
    ELSE [i \in 1..size |->
            IF i = size THEN Fin(100 * Scale)
            ELSE FAdd(FMul(IntToFloat(i - 1),
                           FDiv(Fin(99 * Scale), IntToFloat(size - 1))),
                      Fin(Scale))]

\* ValidationSuite.generate_synthetic_data(size, pattern_type), size >= 0:
\* the array returned, or the exception raised
generate_synthetic_data(self, size, pattern_type) ==
    IF pattern_type = "fibonacci"
    THEN IntsToFloats(Take(FibList(<<1, 1>>, size), size))
    ELSE IF pattern_type = "golden_ratio"
    THEN [exc |-> "none",
          data |-> [i \in 1..size |-> FPow(self.phi, IntToFloat(i - 1))]]
    ELSE IF pattern_type = "prime_modulo"
    THEN LET primes == generate_primes(size * 2)
         IN  IntsToFloats([i \in 1..Len(Take(primes, size)) |-> primes[i] % 100])
    ELSE IF pattern_type = "random"
    THEN [exc |-> "none", data |-> [i \in 1..size |-> Fin(RandomUniform42[i])]]
    ELSE [exc |-> "none", data |-> Linspace(size)]

\* ------------------------------------------------------------------------
\* class SyntheticDataGenerator (synthetic_validation_data.py): the sequences
\* ------------------------------------------------------------------------

\* pi in Fine units, and np.pi as a float
PiFine == 31416
NpPi == Fin(RoundDiv(PiFine, Fine \div Scale))

\* np.exp on one element
FExp(x) ==
    IF IsNaN(x) THEN NaN
    ELSE IF IsInf(x) THEN (IF x.v > 0 THEN PosInf ELSE Fin(0))
    ELSE ExpFine(x.v * (Fine \div Scale))

\* sin(y / Fine) in Fine units for -pi/2 <= y / Fine <= pi/2, by its series
SinSeries(y) ==
    LET y2 == (y * y) \div Fine
        t3 == (y * y2) \div (6 * Fine)
        t5 == (t3 * y2) \div (20 * Fine)
        t7 == (t5 * y2) \div (42 * Fine)
    IN  y - t3 + t5 - t7

\* np.sin on one element: the argument reduced to (-pi, pi], then folded
\* into [-pi/2, pi/2]
FSin(x) ==
    IF ~IsFin(x) THEN NaN
    ELSE LET m == (x.v * (Fine \div Scale)) % (2 * PiFine)
             y == IF m > PiFine THEN m - 2 * PiFine ELSE m
             z == IF 2 * y > PiFine THEN PiFine - y
                  ELSE IF 2 * y < -PiFine THEN -PiFine - y
                  ELSE y
         IN  Fin(RoundDiv(SinSeries(z), Fine \div Scale))

RECURSIVE FPowInt(_, _)
\* x ** i for an int i >= 0 on one element (a negative x included)
FPowInt(x, i) == IF i = 0 THEN Fin(Scale) ELSE FMul(x, FPowInt(x, i - 1))

\* np.linspace(a, b, n) for n >= 0
LinspaceAB(a, b, n) ==
    IF n = 1 THEN <<a>>
    ELSE [i \in 1..n |->
            IF i = n THEN b
            ELSE FAdd(FMul(IntToFloat(i - 1), FDiv(FSub(b, a), IntToFloat(n - 1))), a)]

\* SyntheticDataGenerator.__init__(seed): self.phi
SdgPhi == FDiv(FAdd(Fin(Scale), FSqrt(Fin(5 * Scale))), Fin(2 * Scale))

\* generate_fibonacci_sequence(length)
Sdg_fibonacci(length) ==
    IF length <= 0 THEN [exc |-> "none", data |-> << >>]
    ELSE IntsToFloats(Take(FibList(<<1, 1>>, length), length))

\* generate_golden_ratio_sequence(length): phi ** power for power = 1..length
Sdg_golden_ratio(length) ==
    [exc |-> "none", data |-> [i \in 1..length |-> FPow(SdgPhi, IntToFloat(i))]]

\* generate_prime_modulo_sequence(length, modulo = 100)
Sdg_prime_modulo(length) ==
    The({IntsToFloats([i \in 1..Len(Take(primes, length)) |-> primes[i] % 100])
            : primes \in {Sdg_generate_primes(length * 3)}})

\* generate_logarithmic_sequence(length): np.log(np.linspace(0.1, 100, length))
Sdg_logarithmic(length) ==
    The({[exc |-> "none", data |-> [i \in 1..Len(x_values) |-> FLog(x_values[i])]]
            : x_values \in {LinspaceAB(Fin(Scale \div 10), Fin(100 * Scale), length)}})

\* generate_exponential_sequence(length): np.exp(np.linspace(0.1, 5, length))
Sdg_exponential(length) ==
    The({[exc |-> "none", data |-> [i \in 1..Len(x_values) |-> FExp(x_values[i])]]
            : x_values \in {LinspaceAB(Fin(Scale \div 10), Fin(5 * Scale), length)}})

\* generate_sinusoidal_sequence(length, frequency = 1.0):
\* np.sin(frequency * np.linspace(0, 4 * np.pi, length))
Sdg_sinusoidal(length) ==
    The({[exc |-> "none",
          data |-> [i \in 1..Len(x_values) |-> FSin(FMul(Fin(Scale), x_values[i]))]]
            : x_values \in {LinspaceAB(Fin(0), FMul(Fin(4 * Scale), NpPi), length)}})

\* The global numpy generator, seeded in __init__: rng = [stream, pos], the
\* stream a sequence of raw draws in [-1, 1) read cyclically from pos on.
Draw(rng) == rng.stream[(rng.pos % Len(rng.stream)) + 1]
Advance(rng) == [rng EXCEPT !.pos = rng.pos + 1]
\* np.random.normal(0, sigma): one draw
RandomNormal(sigma, rng) == FMul(sigma, Draw(rng))
\* np.random.uniform(lo, hi): one draw
RandomUniform(lo, hi, rng) ==
    FAdd(lo, FMul(FSub(hi, lo), FDiv(FAdd(Draw(rng), Fin(Scale)), Fin(2 * Scale))))

\* np.random.uniform(lo, hi, n): [values, rng], the draws taken in order
DrawUniforms(lo, hi, n, rng) ==
    [values |-> [k \in 1..n |->
                    RandomUniform(lo, hi, [rng EXCEPT !.pos = rng.pos + k - 1])],
     rng |-> [rng EXCEPT !.pos = rng.pos + (IF n > 0 THEN n ELSE 0)]]

\* np.random.normal(0, sigma, n): [values, rng], the draws taken in order
DrawNormals(sigma, n, rng) ==
    [values |-> [k \in 1..n |->
                    RandomNormal(sigma, [rng EXCEPT !.pos = rng.pos + k - 1])],
     rng |-> [rng EXCEPT !.pos = rng.pos + (IF n > 0 THEN n ELSE 0)]]

RECURSIVE PolyFrom(_, _, _, _)
\* for i, coeff in enumerate(coefficients): result += coeff * (x_values ** i),
\* from the (i + 1)-th coefficient on
PolyFrom(result, x_values, coefficients, i) ==
    IF i >= Len(coefficients) THEN result
    ELSE The({PolyFrom(next, x_values, coefficients, i + 1)
                : next \in {[k \in 1..Len(result) |->
                                FAdd(result[k], FMul(coefficients[i + 1],
                                                     FPowInt(x_values[k], i)))]}})

\* generate_polynomial_sequence(length, degree): [exc, data, rng]
Sdg_polynomial(length, degree, rng) ==
    The({[exc |-> "none",
          data |-> PolyFrom([k \in 1..length |-> Fin(0)],
                            LinspaceAB(Fin(-5 * Scale), Fin(5 * Scale), length),
                            coefficients.values, 0),
          rng |-> coefficients.rng]
            : coefficients \in
                  {DrawUniforms(Fin(-2 * Scale), Fin(2 * Scale), degree + 1, rng)}})

RECURSIVE FractalInner(_, _, _, _)
\* for i in range(len(sequence) - 1): append sequence[i] and the midpoint to
\* the next point plus a variation; here from the i-th element (from 1) on
FractalInner(sequence, i, new_sequence, rng) ==
    IF i > Len(sequence) - 1 THEN [seq |-> new_sequence, rng |-> rng]
    ELSE The({FractalInner(sequence, i + 1, next, Advance(rng))
                : next \in {new_sequence \o
                               <<sequence[i],
                                 FAdd(FDiv(FAdd(sequence[i], sequence[i + 1]),
                                           Fin(2 * Scale)),
                                      RandomNormal(Fin(Scale \div 10), rng))>>}})

RECURSIVE FractalRefine(_, _, _, _)
\* for _ in range(iterations): refine, then trim to length; sequence[-1] on
\* an empty array raises IndexError
FractalRefine(sequence, iterations, length, rng) ==
    IF iterations = 0 THEN [exc |-> "none", data |-> sequence, rng |-> rng]
    ELSE IF Len(sequence) = 0 THEN [exc |-> "IndexError", data |-> << >>, rng |-> rng]
    ELSE The({FractalRefine(IF Len(inner.seq) + 1 > length
                            THEN Take(Append(inner.seq, sequence[Len(sequence)]),
                                      IF length > 0 THEN length ELSE 0)
                            ELSE Append(inner.seq, sequence[Len(sequence)]),
                            iterations - 1, length, inner.rng)
                : inner \in {FractalInner(sequence, 1, << >>, rng)}})

\* generate_fractal_sequence(length, iterations): [exc, data, rng]
Sdg_fractal(length, iterations, rng) ==
    The({IF refined.exc # "none" \/ Len(refined.data) >= length THEN refined
         ELSE [refined EXCEPT
                  !.data = [k \in 1..length |->
                               IF k <= Len(refined.data) THEN refined.data[k]
                               ELSE refined.data[Len(refined.data)]]]
            : refined \in {FractalRefine(<<Fin(Scale)>>, iterations, length, rng)}})

\* generate_quantum_inspired_sequence(length): [exc, data, rng]
Sdg_quantum_inspired(length, rng) ==
    The({[exc |-> "none",
          data |-> [k \in 1..Len(fluctuations.values) |->
                       FAdd(FMul(FMul(FAdd(IntToFloat(k - 1), Fin(Scale \div 2)),
                                      Fin(2 * Scale)), NpPi),
                            fluctuations.values[k])],
          rng |-> fluctuations.rng]
            : fluctuations \in {DrawNormals(Fin(Scale \div 10), length, rng)}})

\* one pass of the loop body: population[i] = population[i-1] + growth, then
\* += noise (the array grows by the element written)
BioStep(st) ==
    The({[population |-> Append(st.population,
                                FAdd(FAdd(prev, FMul(FMul(Fin(Scale \div 10), prev),
                                                     FSub(Fin(Scale),
                                                          FDiv(prev, Fin(100 * Scale))))),
                                     RandomNormal(Fin(Scale \div 20), st.rng))),
          rng |-> Advance(st.rng)]
            : prev \in {st.population[Len(st.population)]}})

RECURSIVE BioFrom(_, _, _)
\* for i in range(lo, hi + 1): the passes lo to hi in order (the lower half,
\* then the upper half), from st = [population, rng]
BioFrom(st, lo, hi) ==
    IF lo > hi THEN st
    ELSE IF lo = hi THEN BioStep(st)
    ELSE The({BioFrom(half, ((lo + hi) \div 2) + 1, hi)
                : half \in {BioFrom(st, lo, (lo + hi) \div 2)}})

\* generate_biological_sequence(length): population[0] = 1.0 on an array of
\* no elements raises IndexError
Sdg_biological(length, rng) ==
    IF length <= 0 THEN [exc |-> "IndexError", data |-> << >>, rng |-> rng]
    ELSE The({[exc |-> "none", data |-> st.population, rng |-> st.rng]
                : st \in {BioFrom([population |-> <<Fin(Scale)>>, rng |-> rng],
                                  1, length - 1)}})

\* ------------------------------------------------------------------------
\* class ValidationSuite: validation
\* ------------------------------------------------------------------------

\* A dict key that may be absent holds << >> when absent and <<value>> when
\* present.
Absent == << >>

\* scipy.stats.pearsonr(x, y): ValueError when the arrays have fewer than two
\* elements, otherwise the coefficient (NaN for a constant array)
pearsonr(x, y) ==
    IF Len(x) < 2 THEN [exc |-> "ValueError", r |-> NaN]
    ELSE [exc |-> "none", r |-> Corrcoef01(x, y)]

RECURSIVE MinFrom(_, _, _)
\* the least of a[lo..hi], lo <= hi: of the least of each half, the first
\* unless the second is less
MinFrom(a, lo, hi) ==
    IF lo = hi THEN a[lo]
    ELSE The({IF FLt(r, l) THEN r ELSE l
                : l \in {MinFrom(a, lo, (lo + hi) \div 2)},
                  r \in {MinFrom(a, ((lo + hi) \div 2) + 1, hi)}})
RECURSIVE MaxFrom(_, _, _)
MaxFrom(a, lo, hi) ==
    IF lo = hi THEN a[lo]
    ELSE The({IF FGt(r, l) THEN r ELSE l
                : l \in {MaxFrom(a, lo, (lo + hi) \div 2)},
                  r \in {MaxFrom(a, ((lo + hi) \div 2) + 1, hi)}})
\* np.min, np.max on a non-empty array
NpMin(a) == MinFrom(a, 1, Len(a))
NpMax(a) == MaxFrom(a, 1, Len(a))

\* a mutant of DatasetSize: the index of the last element
DatasetSizeLastIndex(d) == Len(d) - 1
\* 'dataset_size': len(data)
DatasetSize(d) == Len(d)

\* the result dict of validate_transformation (processing_time, the p-values
\* and the Spearman and KS statistics are not modelled: spearmanr and
\* ks_2samp return for every pair of arrays that pearsonr accepts)
ResultDict(d, metrics, pearson_corr) ==
    [dataset_size |-> DatasetSize(d),
     metrics |-> metrics,
     statistical_tests |-> [pearson_correlation |-> pearson_corr],
     data_characteristics |->
        The({[mean |-> NpMean(d), std |-> NpStd(d), min |-> lo, max |-> hi,
              range |-> FSub(hi, lo)] : lo \in {NpMin(d)}, hi \in {NpMax(d)}}),
     pattern |-> Absent,
     size |-> Absent]

\* a mutant of AppendResult: the new record goes to the front
AppendResultFront(res, ref) == <<ref>> \o res
\* self.results.append(result)
AppendResult(res, ref) == Append(res, ref)

\* a mutant of validate_transformation: the record of a non-empty dataset is
\* appended before the statistical tests run
validate_transformation_append_first(self, h, res, d) ==
    The({The({IF Len(d) = 0
              THEN [exc |-> pearson.exc, ref |-> 0, heap |-> h, results |-> res]
              ELSE [exc |-> pearson.exc,
                    ref |-> IF pearson.exc = "none" THEN Len(h) + 1 ELSE 0,
                    heap |-> Append(h, ResultDict(d, metrics, pearson.r)),
                    results |-> AppendResult(res, Len(h) + 1)]
                 : metrics \in {calculate_consciousness_score(self, d, transformed)},
                   pearson \in {pearsonr(d, transformed)}})
            : transformed \in {transform(self, d, DefaultAmplification)}})

\* ValidationSuite.validate_transformation(d) on the suite state (h, res):
\* the exception raised, or the reference returned, and the suite state after
validate_transformation(self, h, res, d) ==
    The({The({IF pearson.exc # "none"
              THEN [exc |-> pearson.exc, ref |-> 0, heap |-> h, results |-> res]
              ELSE [exc |-> "none", ref |-> Len(h) + 1,
                    heap |-> Append(h, ResultDict(d, metrics, pearson.r)),
                    results |-> AppendResult(res, Len(h) + 1)]
                 : metrics \in {calculate_consciousness_score(self, d, transformed)},
                   pearson \in {pearsonr(d, transformed)}})
            : transformed \in {transform(self, d, DefaultAmplification)}})

\* ------------------------------------------------------------------------
\* SyntheticDataGenerator.generate_validation_suite
\* ------------------------------------------------------------------------

\* the keys of dataset_types, in insertion order
DatasetTypes ==
    <<"fibonacci", "golden_ratio", "prime_modulo", "logarithmic", "exponential",
      "polynomial", "sinusoidal", "fractal", "quantum_inspired", "biological">>

\* a generator that draws nothing leaves the numpy generator as it was
WithRng(gen, rng) == [exc |-> gen.exc, data |-> gen.data, rng |-> rng]

\* generator_func(size) for the entry dataset_name of dataset_types
GeneratorFunc(dataset_name, size, rng) ==
    CASE dataset_name = "fibonacci" -> WithRng(Sdg_fibonacci(size), rng)
      [] dataset_name = "golden_ratio" -> WithRng(Sdg_golden_ratio(size), rng)
      [] dataset_name = "prime_modulo" -> WithRng(Sdg_prime_modulo(size), rng)
      [] dataset_name = "logarithmic" -> WithRng(Sdg_logarithmic(size), rng)
      [] dataset_name = "exponential" -> WithRng(Sdg_exponential(size), rng)
      [] dataset_name = "polynomial" -> Sdg_polynomial(size, 3, rng)
      [] dataset_name = "sinusoidal" -> WithRng(Sdg_sinusoidal(size), rng)
      [] dataset_name = "fractal" -> Sdg_fractal(size, 5, rng)
      [] dataset_name = "quantum_inspired" -> Sdg_quantum_inspired(size, rng)
      [] dataset_name = "biological" -> Sdg_biological(size, rng)

\* the body of the try: the dataset generated and its summary dict built;
\* np.min and np.max raise ValueError on an array of no elements
TryItem(dataset_name, size, rng) ==
    The({IF gen.exc # "none" THEN [exc |-> gen.exc, entry |-> None, rng |-> gen.rng]
         ELSE IF Len(gen.data) = 0
         THEN [exc |-> "ValueError", entry |-> None, rng |-> gen.rng]
         ELSE [exc |-> "none",
               entry |-> [data |-> gen.data, size |-> Len(gen.data),
                          mean |-> NpMean(gen.data), std |-> NpStd(gen.data),
                          min |-> NpMin(gen.data), max |-> NpMax(gen.data)],
               rng |-> gen.rng]
            : gen \in {GeneratorFunc(dataset_name, size, rng)}})

\* d[key] = value on a dict held as a sequence of [key, value] in insertion
\* order: an existing key keeps its place
DictPut(d, key, value) ==
    IF \E i \in 1..Len(d) : d[i].key = key
    THEN [i \in 1..Len(d) |-> IF d[i].key = key THEN [key |-> key, value |-> value]
                                               ELSE d[i]]
    ELSE Append(d, [key |-> key, value |-> value])

\* a mutant of EndItem: the exception of an item is raised again
EndItemReraise(st, ti, size, item) ==
    IF item.exc = "none"
    THEN [st EXCEPT !.datasets[ti].entries = DictPut(@, size, item.entry),
                    !.rng = item.rng]
    ELSE [st EXCEPT !.exc = item.exc, !.rng = item.rng]
\* the end of one item: validation_suite['datasets'][dataset_name][f'size_{size}']
\* = {...} when the try body completed; except Exception as e: print only
EndItem(st, ti, size, item) ==
    IF item.exc = "none"
    THEN [st EXCEPT !.datasets[ti].entries = DictPut(@, size, item.entry),
                    !.rng = item.rng]
    ELSE [st EXCEPT !.rng = item.rng]

\* one pass of the inner loop: item number n (from 0) of the two nested
\* loops is dataset type n div len(sizes), size n mod len(sizes); an
\* exception that left an earlier item has ended the loops
SuiteItem(sizes, n, st) ==
    IF st.exc # "none" THEN st
    ELSE LET ti == (n \div Len(sizes)) + 1
             size == sizes[(n % Len(sizes)) + 1]
         IN  The({EndItem(st, ti, size, item)
                     : item \in {TryItem(DatasetTypes[ti], size, st.rng)}})

RECURSIVE SuiteLoop(_, _, _, _)
\* The items lo to hi of the two nested loops of generate_validation_suite in
\* order (the lower half, then the upper half), from st = [datasets, rng, exc]
SuiteLoop(sizes, lo, hi, st) ==
    IF lo > hi THEN st
    ELSE IF lo = hi THEN SuiteItem(sizes, lo, st)
    ELSE The({SuiteLoop(sizes, ((lo + hi) \div 2) + 1, hi, half)
                : half \in {SuiteLoop(sizes, lo, (lo + hi) \div 2, st)}})

\* SyntheticDataGenerator.generate_validation_suite(sizes): the exception that
\* leaves the call, or validation_suite['datasets'] (one dict per dataset
\* type, empty until an item of the type completes)
generate_validation_suite(sizes, rng) ==
    The({[exc |-> st.exc, datasets |-> IF st.exc = "none" THEN st.datasets ELSE << >>]
            : st \in {SuiteLoop(sizes, 0, Len(DatasetTypes) * Len(sizes) - 1,
                                [datasets |-> [t \in 1..Len(DatasetTypes) |->
                                                  [name |-> DatasetTypes[t],
                                                   entries |-> << >>]],
                                 rng |-> rng, exc |-> "none"])}})

\* ------------------------------------------------------------------------
\* ValidationSuite.run_comprehensive_validation
\* ------------------------------------------------------------------------

\* patterns = ['fibonacci', 'golden_ratio', 'prime_modulo', 'random']
Patterns == <<"fibonacci", "golden_ratio", "prime_modulo", "random">>

\* sizes = [1000, 10000, 100000] when the argument is None
DefaultSizes == <<1000, 10000, 100000>>
SizesOrDefault(sizes) == IF sizes = None THEN DefaultSizes ELSE sizes.v
SizeList(q) == [k |-> "list", v |-> q]

\* organized[pattern].append(result), organized a dict held as a sequence of
\* [pattern, records] in insertion order
OrganizedAppend(organized, pattern, ref) ==
    IF \E k \in 1..Len(organized) : organized[k].pattern = pattern
    THEN [k \in 1..Len(organized) |->
             IF organized[k].pattern = pattern
             THEN [organized[k] EXCEPT !.records = Append(@, ref)]
             ELSE organized[k]]
    ELSE Append(organized, [pattern |-> pattern, records |-> <<ref>>])

RECURSIVE OrganizeFrom(_, _, _, _)
\* for result in self.results, from the i-th on:
\* pattern = result.get('pattern', 'unknown')
OrganizeFrom(h, res, i, organized) ==
    IF i > Len(res) THEN organized
    ELSE The({OrganizeFrom(h, res, i + 1, next)
                : next \in {OrganizedAppend(organized,
                                IF h[res[i]].pattern = Absent THEN "unknown"
                                ELSE h[res[i]].pattern[1],
                                res[i])}})

\* ValidationSuite._organize_results()
organize_results(h, res) == OrganizeFrom(h, res, 1, << >>)

\* a mutant of Tag: the tags are set on a copy, the appended dict stays as
\* it was
TagCopy(h, ref, pattern, size) == h
\* a mutant of NewPatternResults: the list is not reset between patterns
KeepPatternResults(previous) == previous
\* pattern_results = [] at the top of the loop over patterns
NewPatternResults(previous) == << >>

\* result['pattern'] = pattern; result['size'] = size
Tag(h, ref, pattern, size) ==
    [h EXCEPT ![ref].pattern = <<pattern>>, ![ref].size = <<size>>]

RECURSIVE RunLoop(_, _, _, _, _)
\* The two nested loops of run_comprehensive_validation from pattern number
\* pi and size number si on, in state st = [heap, results, calls, comp,
\* pattern_results, exc]; it stops at the first exception.
RunLoop(self, sizes, pi, si, st) ==
    IF pi > Len(Patterns) THEN st
    ELSE IF si > Len(sizes)
    THEN \* comprehensive_results[pattern] = pattern_results
         The({RunLoop(self, sizes, pi + 1, 1, next)
                 : next \in {[st EXCEPT
                        !.comp = Append(st.comp, [pattern |-> Patterns[pi],
                                                  records |-> st.pattern_results]),
                        !.pattern_results = NewPatternResults(st.pattern_results)]}})
    ELSE The({IF gen.exc # "none" THEN [st EXCEPT !.exc = gen.exc]
              ELSE The({IF val.exc # "none" THEN [st EXCEPT !.exc = val.exc]
                        ELSE The({RunLoop(self, sizes, pi, si + 1, next)
                            : next \in {[st EXCEPT
                                !.heap = Tag(val.heap, val.ref, Patterns[pi], sizes[si]),
                                !.results = val.results,
                                !.calls = Append(st.calls, val.ref),
                                !.pattern_results = Append(st.pattern_results, val.ref)]}})
                      : val \in {validate_transformation(self, st.heap, st.results,
                                                         gen.data)}})
            : gen \in {generate_synthetic_data(self, sizes[si], Patterns[pi])}})

\* ValidationSuite.run_comprehensive_validation(sizes) on the suite state
run_comprehensive_validation(self, h, res, log, sizes) ==
    RunLoop(self, SizesOrDefault(sizes), 1, 1,
            [heap |-> h, results |-> res, calls |-> log, comp |-> << >>,
             pattern_results |-> << >>, exc |-> "none"])

\* ------------------------------------------------------------------------
\* State
\* ------------------------------------------------------------------------

VARIABLES
    fht,      \* the FractalHarmonicTransform instance (ValidationSuite.fht)
    data,     \* the caller's input array
    last,     \* the last call: its name, arguments, locals and result
    heap,     \* the dicts built by validate_transformation, by identity
    results,  \* ValidationSuite.results: a list of references into heap
    calls,    \* the dicts returned by validate_transformation, in call order
    ops,      \* number of suite calls made
    history   \* the direct calls of the engine's methods on suite.fht, in order

vars == <<fht, data, last, heap, results, calls, ops, history>>

NoCall == [op |-> "none"]

\* ------------------------------------------------------------------------
\* Inputs
\* ------------------------------------------------------------------------

\* longest input array
MaxLen == 2

\* array elements: NaN, an infinity, a negative value, zero, ordinary
\* values, the largest float
DataValues ==
    {NaN, PosInf, Fin(-3 * Scale), Fin(0), Fin(2 * Scale), Fin(10 * Scale),
     Fin(MaxFloat)}

RECURSIVE SeqsUpTo(_, _)
\* the sequences over S of length at most n
SeqsUpTo(S, n) ==
    IF n = 0 THEN {<< >>}
    ELSE LET shorter == SeqsUpTo(S, n - 1)
         IN  shorter \cup {Append(q, x) : q \in shorter, x \in S}

DataSeqs == SeqsUpTo(DataValues, MaxLen)

\* constructor arguments: the defaults and other values
AlphaArgs == {None, Fin((5 * Scale) \div 2)}
BetaArgs == {DefaultBeta, Fin(0)}
EpsilonArgs == {DefaultEpsilon, Fin(Scale \div 2), Fin(0)}

\* amplification: the default 1.0, zero, a negative value, the largest float
AmpArgs == {DefaultAmplification, Fin(0), Fin(-2 * Scale), Fin(MaxFloat)}

\* the transformed argument of a direct calculate_consciousness_score call:
\* any array, of the length of the original or not
ScoreArgs == SeqsUpTo({Fin(0), Fin(-3 * Scale)}, MaxLen)

\* ------------------------------------------------------------------------
\* The engine called directly
\* ------------------------------------------------------------------------

InitEngine ==
    /\ fht \in {FHTNew(a, b, e) : a \in AlphaArgs, b \in BetaArgs, e \in EpsilonArgs}
    /\ data \in DataSeqs
    /\ last = NoCall
    /\ heap = << >>
    /\ results = << >>
    /\ calls = << >>
    /\ ops = 0
    /\ history = << >>

\* fht.transform(data, amplification)
Transform(amplification) ==
    /\ last.op = "none"
    /\ \E l \in {TransformLocals(fht, data, amplification)} :
           last' = [op |-> "transform", data |-> data, amplification |-> amplification,
                    log_term |-> l.log_term, phi_power |-> l.phi_power,
                    out |-> l.result]
    /\ UNCHANGED <<fht, data, heap, results, calls, ops, history>>

\* fht.calculate_consciousness_score(data, fht.transform(data)), the pair
\* validate_transformation passes
Score ==
    /\ last.op = "none"
    /\ \E transformed \in {transform(fht, data, DefaultAmplification)} :
           last' = [op |-> "score", original |-> data, transformed |-> transformed,
                    ret |-> calculate_consciousness_score(fht, data, transformed)]
    /\ UNCHANGED <<fht, data, heap, results, calls, ops, history>>

\* fht.calculate_consciousness_score(data, transformed) on a transformed array
\* of the caller's choice
ScoreAny(transformed) ==
    /\ last.op = "none"
    /\ \E call \in {score_call(fht, data, transformed)} :
           last' = [op |-> "score_any", original |-> data, transformed |-> transformed,
                    exc |-> call.exc, ret |-> call.ret]
    /\ UNCHANGED <<fht, data, heap, results, calls, ops, history>>

NextEngine ==
    \/ \E amplification \in AmpArgs : Transform(amplification)
    \/ Score
    \/ \E transformed \in ScoreArgs : ScoreAny(transformed)

SpecEngine == InitEngine /\ [][NextEngine]_vars

\* ------------------------------------------------------------------------
\* The validation suite
\* ------------------------------------------------------------------------

\* suite calls per behaviour
MaxOps == 2

\* datasets passed to validate_transformation
ValidateInputs == SeqsUpTo({Fin(2 * Scale), Fin(10 * Scale)}, MaxLen)

\* the sizes arguments passed to run_comprehensive_validation
SizesInputs ==
    {SizeList(<< >>), SizeList(<<1>>), SizeList(<<2>>), SizeList(<<3, 2>>),
     SizeList(<<2, 2>>), SizeList(<<2, 1>>), SizeList(<<1, 3>>)}

\* suite = ValidationSuite()
Init ==
    /\ fht = FHTNew(None, DefaultBeta, DefaultEpsilon)
    /\ data = << >>
    /\ last = NoCall
    /\ heap = << >>
    /\ results = << >>
    /\ calls = << >>
    /\ ops = 0
    /\ history = << >>

\* suite.validate_transformation(d)
Validate(d) ==
    /\ ops < MaxOps
    /\ \E val \in {validate_transformation(fht, heap, results, d)} :
           /\ heap' = val.heap
           /\ results' = val.results
           /\ calls' = IF val.exc = "none" THEN Append(calls, val.ref) ELSE calls
           /\ last' = [op |-> "validate", data |-> d, exc |-> val.exc, ret |-> val.ref]
    /\ ops' = ops + 1
    /\ UNCHANGED <<fht, data, history>>

\* suite.run_comprehensive_validation(sizes)
Run(sizes) ==
    /\ ops < MaxOps
    /\ \E st \in {run_comprehensive_validation(fht, heap, results, calls, sizes)} :
           /\ heap' = st.heap
           /\ results' = st.results
           /\ calls' = st.calls
           /\ last' = [op |-> "run", sizes |-> SizesOrDefault(sizes), exc |-> st.exc,
                       ret |-> IF st.exc = "none" THEN st.comp ELSE << >>]
    /\ ops' = ops + 1
    /\ UNCHANGED <<fht, data, history>>

Next ==
    \/ \E d \in ValidateInputs : Validate(d)
    \/ \E sizes \in SizesInputs : Run(sizes)

Spec == Init /\ [][Next]_vars

\* ------------------------------------------------------------------------
\* The engine of a suite called directly, between validations
\* ------------------------------------------------------------------------

\* direct engine calls per behaviour
MaxCalls == 3

\* the arrays passed: one with a zero and a value above 1, one that is a
\* single NaN
CallData == {<<Fin(0), Fin(10 * Scale)>>, <<NaN>>}
\* the amplifications passed
CallAmps == {DefaultAmplification, Fin(-2 * Scale)}
\* the transformed array passed to calculate_consciousness_score
CallTransformed == <<Fin(0), Fin(-3 * Scale)>>

\* a mutant of SelfAfterTransform: the call moves beta
SelfAfterTransformDrift(self) == [self EXCEPT !.beta = FAdd(self.beta, Fin(Scale))]
\* the instance after transform: the method assigns no attribute of self
SelfAfterTransform(self) == self
\* the instance after calculate_consciousness_score: no attribute assigned
SelfAfterScore(self) == self
\* a mutant of ArgAfterTransform: the clamping done in place
ArgAfterTransformClamped(self, d) == Clamp(self, d)
\* the caller's array after transform: data = np.maximum(data, self.epsilon)
\* binds the local name to a new array and every later step builds new arrays
ArgAfterTransform(self, d) == d
\* the caller's arrays after calculate_consciousness_score: only read
ArgsAfterScore(original, transformed) == <<original, transformed>>

\* suite.fht.transform(d, amplification)
CallTransform(d, amplification) ==
    /\ Len(history) < MaxCalls
    /\ history' = Append(history,
           [op |-> "transform", args |-> <<d, amplification>>,
            ret |-> transform(fht, d, amplification),
            args_after |-> <<ArgAfterTransform(fht, d), amplification>>,
            validations |-> ops])
    /\ fht' = SelfAfterTransform(fht)
    /\ UNCHANGED <<data, last, heap, results, calls, ops>>

\* suite.fht.calculate_consciousness_score(original, transformed)
CallScore(original, transformed) ==
    /\ Len(history) < MaxCalls
    /\ history' = Append(history,
           [op |-> "score", args |-> <<original, transformed>>,
            ret |-> score_call(fht, original, transformed),
            args_after |-> ArgsAfterScore(original, transformed),
            validations |-> ops])
    /\ fht' = SelfAfterScore(fht)
    /\ UNCHANGED <<data, last, heap, results, calls, ops>>

NextCalls ==
    \/ \E d \in CallData, amplification \in CallAmps : CallTransform(d, amplification)
    \/ \E original \in CallData : CallScore(original, CallTransformed)
    \/ \E d \in CallData : Validate(d)

SpecCalls == Init /\ [][NextCalls]_vars

\* ------------------------------------------------------------------------
\* The data generators called directly
\* ------------------------------------------------------------------------

\* largest number of primes asked for
MaxPrimeN == 40
\* largest dataset size asked for
MaxSize == 28

PrimeArgs == (-1)..MaxPrimeN
GenSizes == 1..MaxSize
\* the four pattern names and a name that is none of them
GenPatterns == {Patterns[i] : i \in 1..Len(Patterns)} \cup {"uniform"}

\* suite._generate_primes(n)
GeneratePrimes(n) ==
    /\ last.op = "none"
    /\ last' = [op |-> "primes", n |-> n, ret |-> generate_primes(n)]
    /\ UNCHANGED <<fht, data, heap, results, calls, ops, history>>

\* SyntheticDataGenerator()._generate_primes(n)
SdgGeneratePrimes(n) ==
    /\ last.op = "none"
    /\ last' = [op |-> "sdg_primes", n |-> n, ret |-> Sdg_generate_primes(n)]
    /\ UNCHANGED <<fht, data, heap, results, calls, ops, history>>

\* suite.generate_synthetic_data(size, pattern_type)
Generate(size, pattern_type) ==
    /\ last.op = "none"
    /\ \E gen \in {generate_synthetic_data(fht, size, pattern_type)} :
           last' = [op |-> "generate", size |-> size, pattern |-> pattern_type,
                    exc |-> gen.exc, ret |-> gen.data]
    /\ UNCHANGED <<fht, data, heap, results, calls, ops, history>>

\* the sizes arguments passed to generate_validation_suite
SuiteSizes == {<< >>, <<2>>, <<2, 2>>, <<0, 1>>, <<3, 0>>, <<MaxSize, 2>>}
\* the raw draws of the numpy generator, and the streams built of them
RawDraws == {Fin(-Scale), Fin(Scale \div 2)}
RngStreams == {<<a, b>> : a \in RawDraws, b \in RawDraws}

\* SyntheticDataGenerator().generate_validation_suite(sizes), the numpy
\* generator yielding stream
GenerateSuite(sizes, stream) ==
    /\ last.op = "none"
    /\ \E suite \in {generate_validation_suite(sizes, [stream |-> stream, pos |-> 0])} :
           last' = [op |-> "suite", sizes |-> sizes, stream |-> stream,
                    exc |-> suite.exc, ret |-> suite.datasets]
    /\ UNCHANGED <<fht, data, heap, results, calls, ops, history>>

NextGenerators ==
    \/ \E n \in PrimeArgs : GeneratePrimes(n)
    \/ \E n \in PrimeArgs : SdgGeneratePrimes(n)
    \/ \E size \in GenSizes, pattern_type \in GenPatterns : Generate(size, pattern_type)
    \/ \E sizes \in SuiteSizes, stream \in RngStreams : GenerateSuite(sizes, stream)

SpecGenerators == Init /\ [][NextGenerators]_vars

\* ------------------------------------------------------------------------
\* Claims about the engine (checked under SpecEngine)
\* ------------------------------------------------------------------------

AllFinite(a) == \A i \in 1..Len(a) : IsFin(a[i])
InRange(x, lo, hi) == IsFin(x) /\ lo <= x.v /\ x.v <= hi

\* C1: every element transform returns is finite, for every input array
\* (NaN, infinite, zero, negative and very large elements included) and
\* every amplification.
C1_TransformFinite ==
    last.op = "transform" => AllFinite(last.out)

\* C1 witness: a call on an array holding NaN and an infinity, amplified by
\* the largest float, returned finite elements only.
C1_Witness ==
    /\ last.op = "transform"
    /\ \E i \in 1..Len(last.data) : IsNaN(last.data[i])
    /\ \E i \in 1..Len(last.data) : IsInf(last.data[i])
    /\ last.amplification = Fin(MaxFloat)
    /\ AllFinite(last.out)

AllBelowEpsilon(a) == Len(a) > 0 /\ \A i \in 1..Len(a) : FLt(a[i], fht.epsilon)

\* C2 as stated: when every value is below epsilon, every element of the
\* result equals beta.
C2_BelowEpsilonGivesBeta ==
    last.op = "transform" /\ AllBelowEpsilon(last.data)
        => \A i \in 1..Len(last.out) : last.out[i] = fht.beta

\* C2 amended: when every value is below epsilon, the result is constant and
\* every element equals the transform of epsilon itself.
C2_BelowEpsilonGivesTransformOfEpsilon ==
    last.op = "transform" /\ AllBelowEpsilon(last.data)
        => \A i \in 1..Len(last.out) :
              last.out[i] = transform(fht, <<fht.epsilon>>, last.amplification)[1]

\* C2 witness: a call on two different values below epsilon returned a
\* constant that is not beta.
C2_Witness ==
    /\ last.op = "transform"
    /\ AllBelowEpsilon(last.data)
    /\ Len(last.data) = 2
    /\ last.data[1] # last.data[2]
    /\ last.out[1] = last.out[2]
    /\ last.out[1] # fht.beta

\* C3 as stated: the exponent applied to |log_term| is the configured alpha.
C3_ExponentIsAlpha ==
    last.op = "transform"
        => \A i \in 1..Len(last.phi_power) :
              last.phi_power[i] = FPow(FAbs(last.log_term[i]), fht.alpha)

\* C3 amended: the exponent applied to |log_term| is always phi, the golden
\* ratio (the default of alpha), whatever alpha the instance was built with
\* and whatever the amplification.
C3_ExponentIsPhi ==
    last.op = "transform"
        => /\ fht.phi = FHTNew(None, DefaultBeta, DefaultEpsilon).alpha
           /\ \A i \in 1..Len(last.phi_power) :
                 last.phi_power[i] = FPow(FAbs(last.log_term[i]), fht.phi)

\* C3 witness: a call on an instance built with alpha other than phi, with
\* an amplification other than the default, where the two exponents differ.
C3_Witness ==
    /\ last.op = "transform"
    /\ fht.alpha # fht.phi
    /\ last.amplification # DefaultAmplification
    /\ \E i \in 1..Len(last.phi_power) :
          /\ last.phi_power[i] = FPow(FAbs(last.log_term[i]), fht.phi)
          /\ last.phi_power[i] # FPow(FAbs(last.log_term[i]), fht.alpha)

\* C4: transform returns one element per input element, in order: element i
\* of the result is the transform of element i alone; the empty array gives
\* the empty array.
C4_ElementWise ==
    last.op = "transform"
        => /\ Len(last.out) = Len(last.data)
           /\ \A i \in 1..Len(last.data) :
                 last.out[i] = transform(fht, <<last.data[i]>>, last.amplification)[1]
           /\ (last.data = << >> => last.out = << >>)

\* C4 witness: a call on two elements, one of them NaN, returned two different
\* elements.
C4_Witness ==
    /\ last.op = "transform"
    /\ Len(last.data) = 2
    /\ Len(last.out) = 2
    /\ IsNaN(last.data[2])
    /\ last.out[1] # last.out[2]

\* C5: for a finite, non-empty original and its transform,
\* consciousness_score lies in [0, 1].
C5_ConsciousnessScoreInUnitInterval ==
    last.op = "score" /\ Len(last.original) > 0 /\ AllFinite(last.original)
        => InRange(last.ret.consciousness_score, 0, Scale)

\* C5 witness: a call on a finite, non-empty original where the weighted sum
\* exceeded 1.0 and was capped.
C5_Witness ==
    /\ last.op = "score"
    /\ Len(last.original) > 0
    /\ AllFinite(last.original)
    /\ FGt(FAdd(FMul(fht.stability_weight, last.ret.stability_score),
                FMul(fht.breakthrough_weight, last.ret.breakthrough_score)),
           Fin(Scale))
    /\ last.ret.consciousness_score = Fin(Scale)

\* C6: correlation is in [-1, 1] when the (finite) dataset has more than one
\* element, and is 0 when it has at most one.
C6_CorrelationInRange ==
    last.op = "score" /\ AllFinite(last.original)
        => IF Len(last.original) > 1
           THEN InRange(last.ret.correlation, -Scale, Scale)
           ELSE last.ret.correlation = Fin(0)

\* ------------------------------------------------------------------------
\* Claims about the validation suite (checked under Spec)
\* ------------------------------------------------------------------------

\* the (pattern, size) pair fails on its own: generation or validation raises
PairFails(pattern, size) ==
    \E gen \in {generate_synthetic_data(fht, size, pattern)} :
        \/ gen.exc # "none"
        \/ validate_transformation(fht, << >>, << >>, gen.data).exc # "none"

\* the size tags of a list of records
SizeTags(refs) == [i \in 1..Len(refs) |-> heap[refs[i]].size]

\* C7: when some (pattern, size) pair of a run fails and another does not, the
\* run does not abort: it returns, and for each pattern it holds a record for
\* every size whose pair does not fail, in the order of sizes.
C7_RunSurvivesFailingPair ==
    LET pairs == (1..Len(Patterns)) \X (1..Len(last.sizes))
        Fails(pr) == PairFails(Patterns[pr[1]], last.sizes[pr[2]])
    IN  (last.op = "run" /\ (\E pr \in pairs : Fails(pr)) /\ (\E pr \in pairs : ~Fails(pr)))
        => /\ last.exc = "none"
           /\ Len(last.ret) = Len(Patterns)
           /\ \A k \in 1..Len(last.ret) :
                 LET Succeeds(size) == ~PairFails(Patterns[k], size)
                     good == SelectSeq(last.sizes, Succeeds)
                 IN  SizeTags(last.ret[k].records) = [i \in 1..Len(good) |-> <<good[i]>>]

\* C8: validate_transformation on a dataset of one element does not raise,
\* and the correlation metric of its record is 0.
C8_SingleElementDoesNotRaise ==
    last.op = "validate" /\ Len(last.data) = 1
        => /\ last.exc = "none"
           /\ heap[last.ret].metrics.correlation = Fin(0)

\* C9: the results list is exactly the records returned by the successful
\* validate_transformation calls so far, one per call, in call order (so a
\* call appends one record and leaves the earlier entries in place).
C9_ResultsAreTheSuccessfulCalls ==
    /\ results = calls
    /\ \A i, j \in 1..Len(results) : i # j => results[i] # results[j]
    /\ \A i \in 1..Len(results) : results[i] \in 1..Len(heap)

\* C9 witness: a second successful direct call appended its record after the
\* record of the first.
C9_Witness ==
    /\ last.op = "validate"
    /\ last.exc = "none"
    /\ Len(results) = 2
    /\ results[2] = last.ret
    /\ results[1] # last.ret
    /\ heap[results[1]].pattern = Absent

\* C10: a run in which no pair fails returns the four pattern keys in the
\* fixed order, each with one record per entry of sizes, the i-th tagged with
\* the pattern and with sizes[i].
C10_RunResultShape ==
    last.op = "run" /\ last.exc = "none"
        => /\ [k \in 1..Len(last.ret) |-> last.ret[k].pattern]
                 = <<"fibonacci", "golden_ratio", "prime_modulo", "random">>
           /\ \A k \in 1..Len(last.ret) :
                 /\ Len(last.ret[k].records) = Len(last.sizes)
                 /\ \A i \in 1..Len(last.sizes) :
                       /\ heap[last.ret[k].records[i]].pattern = <<last.ret[k].pattern>>
                       /\ heap[last.ret[k].records[i]].size = <<last.sizes[i]>>

\* C10 witness: a run over two different sizes, not in ascending order,
\* returned.
C10_Witness ==
    /\ last.op = "run"
    /\ last.exc = "none"
    /\ last.sizes = <<3, 2>>
    /\ Len(last.ret) = 4
    /\ Len(last.ret[4].records) = 2

\* C11 as stated: within each pattern the records of a run are ordered by
\* ascending size, whatever the order of the sizes argument.
C11_RecordsAscendingBySize ==
    last.op = "run" /\ last.exc = "none"
        => \A k \in 1..Len(last.ret) :
              \A i, j \in 1..Len(last.ret[k].records) :
                  i < j => heap[last.ret[k].records[i]].size[1]
                               <= heap[last.ret[k].records[j]].size[1]

\* the dataset run_comprehensive_validation generates for (pattern, size)
GeneratedFor(pattern, size) == generate_synthetic_data(fht, size, pattern).data

\* C12: the record of a validate_transformation call has dataset_size equal
\* to the length of the dataset passed to the call; a record of a run has
\* dataset_size equal to the length of the dataset generated for it and to
\* its size tag, and every record that carries a size tag has dataset_size
\* equal to the tag.
C12_DatasetSizeIsLength ==
    /\ last.op = "validate" /\ last.exc = "none"
           => heap[last.ret].dataset_size = Len(last.data)
    /\ last.op = "run" /\ last.exc = "none"
           => \A k \in 1..Len(last.ret) : \A i \in 1..Len(last.ret[k].records) :
                 LET rec == heap[last.ret[k].records[i]]
                 IN  /\ rec.dataset_size
                            = Len(GeneratedFor(last.ret[k].pattern, last.sizes[i]))
                     /\ rec.size = <<rec.dataset_size>>
    /\ \A r \in 1..Len(heap) :
           heap[r].size # Absent => heap[r].size = <<heap[r].dataset_size>>

\* C12 witness: a direct call on a two-element dataset was recorded after a
\* run over the sizes 3 and 2 whose records carry those sizes.
C12_Witness ==
    /\ last.op = "validate"
    /\ last.exc = "none"
    /\ Len(last.data) = 2
    /\ heap[last.ret].dataset_size = 2
    /\ heap[last.ret].size = Absent
    /\ Len(heap) = 9
    /\ heap[1].dataset_size = 3 /\ heap[1].size = <<3>>
    /\ heap[2].dataset_size = 2 /\ heap[2].size = <<2>>

\* C13 as stated: no instance with epsilon <= 0 exists to be used by a
\* transform call.
C13_EpsilonPositive ==
    last.op = "transform" => FGt(fht.epsilon, Fin(0))

\* C14 as stated: calculate_consciousness_score on an original and a
\* transformed array of different lengths raises, whatever the two lengths.
C14_MismatchedLengthsRaise ==
    last.op = "score_any" /\ Len(last.original) # Len(last.transformed)
        => last.exc # "none"

\* C17: breakthrough_score is the population standard deviation of the
\* transformed array divided by the mean of its absolute values when that
\* mean is greater than 0, and exactly 0 otherwise, so no division by a zero
\* mean takes place.
C17_BreakthroughScore ==
    last.op = "score" \/ (last.op = "score_any" /\ last.exc = "none")
        => LET t == last.transformed
               n == IntToFloat(Len(t))
               meanAbs == FDiv(NpSum([i \in 1..Len(t) |-> FAbs(t[i])]), n)
               mean == FDiv(NpSum(t), n)
               variance == FDiv(NpSum([i \in 1..Len(t) |->
                                         FMul(FSub(t[i], mean), FSub(t[i], mean))]), n)
           IN  last.ret.breakthrough_score
                   = IF FGt(meanAbs, Fin(0)) THEN FDiv(FSqrt(variance), meanAbs)
                     ELSE Fin(0)

\* C17 witness: a call on a transformed array of two zeros returned
\* breakthrough_score 0.
C17_Witness ==
    /\ last.op = "score_any"
    /\ last.exc = "none"
    /\ last.transformed = <<Fin(0), Fin(0)>>
    /\ last.ret.breakthrough_score = Fin(0)

DefaultInstance == fht = FHTNew(None, DefaultBeta, DefaultEpsilon)

\* C18: on an instance built with the default parameters, transform with
\* amplification 1.0 returns what the transform of mathematical_derivations
\* returns for the same array, and calculate_consciousness_score returns (or
\* raises) what the one of mathematical_derivations does for the same pair.
C18_SameAsMathematicalDerivations ==
    /\ last.op = "transform" /\ DefaultInstance
            /\ last.amplification = DefaultAmplification
           => last.out = Md_transform(MdFHTNew, last.data)
    /\ last.op = "score" /\ DefaultInstance
           => Md_score_call(MdFHTNew, last.original, last.transformed)
                 = [exc |-> "none", ret |-> last.ret]
    /\ last.op = "score_any" /\ DefaultInstance
           => Md_score_call(MdFHTNew, last.original, last.transformed)
                 = [exc |-> last.exc, ret |-> last.ret]

\* C18 witness: transform on the default instance with amplification 1.0, on
\* zero and a value above 1, returned two different values, neither of them
\* beta, as the transform of mathematical_derivations does.
C18_Witness ==
    /\ last.op = "transform"
    /\ DefaultInstance
    /\ last.amplification = DefaultAmplification
    /\ last.data = <<Fin(0), Fin(10 * Scale)>>
    /\ last.out = Md_transform(MdFHTNew, last.data)
    /\ last.out[1] # last.out[2]
    /\ last.out[1] # fht.beta /\ last.out[2] # fht.beta

\* ------------------------------------------------------------------------
\* Claims about direct engine calls on a suite (checked under SpecCalls)
\* ------------------------------------------------------------------------

\* C15: two calls of the same method with the same arguments on the
\* instance return the same thing, whatever transform, score and
\* validate_transformation calls were made before and between them.
C15_Deterministic ==
    \A i, j \in 1..Len(history) :
        history[i].op = history[j].op /\ history[i].args = history[j].args
            => history[i].ret = history[j].ret

\* C15 witness: a transform call was repeated with the same arguments after
\* a score call and a successful validation made between the two, and
\* returned the same array.
C15_Witness ==
    /\ Len(history) = 3
    /\ history[1].op = "transform"
    /\ history[3].op = "transform"
    /\ history[1].args = history[3].args
    /\ history[2].op = "score"
    /\ history[3].validations > history[1].validations
    /\ Len(results) > 0
    /\ history[1].ret = history[3].ret

\* C16: a transform or calculate_consciousness_score call leaves the
\* instance (alpha, beta, epsilon, phi and the two weights), the caller's
\* arrays and the suite's results list and records as they were.
C16_CallsChangeNothing ==
    [][Len(history') > Len(history)
          => /\ fht' = fht
             /\ history'[Len(history')].args_after = history'[Len(history')].args
             /\ results' = results
             /\ heap' = heap]_vars

\* C16 witness: a transform and a score call were made on a suite holding a
\* record, and the instance is still the one the suite was built with.
C16_Witness ==
    /\ Len(results) = 1
    /\ \E i, j \in 1..Len(history) :
          /\ history[i].op = "transform" /\ history[i].validations = 1
          /\ history[j].op = "score" /\ history[j].validations = 1
    /\ fht = FHTNew(None, DefaultBeta, DefaultEpsilon)

\* ------------------------------------------------------------------------
\* Claims about the data generators (checked under SpecGenerators)
\* ------------------------------------------------------------------------

IsPrime(k) == k >= 2 /\ \A d \in 2..(k - 1) : k % d # 0

\* C19: _generate_primes(n), in ValidationSuite and in
\* SyntheticDataGenerator, returns the empty list for n <= 0 and, for
\* n >= 1, exactly n numbers: the n smallest primes in ascending order.
C19_FirstPrimes ==
    last.op \in {"primes", "sdg_primes"}
        => LET p == last.ret
           IN  IF last.n <= 0 THEN p = << >>
               ELSE /\ Len(p) = last.n
                    /\ \A i \in 1..Len(p) : IsPrime(p[i])
                    /\ \A i \in 1..(Len(p) - 1) : p[i] < p[i + 1]
                    /\ \A k \in 2..p[Len(p)] :
                          IsPrime(k) => \E i \in 1..Len(p) : p[i] = k

\* C19 witness: a call of the SyntheticDataGenerator method asking for more
\* primes than lie below the fixed bound of its small cases returned that
\* many, the last one beyond that bound.
C19_Witness ==
    /\ last.op = "sdg_primes"
    /\ last.n = MaxPrimeN
    /\ Len(last.ret) = MaxPrimeN
    /\ last.ret[1] = 2
    /\ last.ret[Len(last.ret)] > 30

\* C20 as stated: generate_synthetic_data(size, pattern) returns an array of
\* exactly size elements for every size >= 1 and every pattern name.
C20_GeneratesSizeElements ==
    last.op = "generate" => last.exc = "none" /\ Len(last.ret) = last.size

\* the item (dataset type, size) raises on its own, in generation or in the
\* summary
ItemFails(dataset_name, size) ==
    TryItem(dataset_name, size, [stream |-> last.stream, pos |-> 0]).exc # "none"

\* the keys of a dict held as a sequence of [key, value]
Keys(d) == {d[i].key : i \in 1..Len(d)}

\* C21: generate_validation_suite returns normally whatever items raise; it
\* holds the ten dataset types in order, and under each type one entry for
\* every size whose item does not raise and none for a size whose item
\* raises, each entry with size equal to the length of its data and to the
\* size asked for.
C21_FailingItemsAreSkipped ==
    last.op = "suite"
        => /\ last.exc = "none"
           /\ [t \in 1..Len(last.ret) |-> last.ret[t].name] = DatasetTypes
           /\ \A t \in 1..Len(last.ret) :
                 LET entries == last.ret[t].entries
                 IN  /\ Keys(entries)
                            = {last.sizes[i] : i \in {j \in 1..Len(last.sizes) :
                                   ~ItemFails(last.ret[t].name, last.sizes[j])}}
                     /\ \A e \in 1..Len(entries) :
                            /\ entries[e].value.size = Len(entries[e].value.data)
                            /\ entries[e].value.size = entries[e].key

\* C21 witness: a call over a size at which the fibonacci item raises and a
\* size at which no item raises returned; fibonacci holds the entry of the
\* second size only, golden_ratio the entries of both.
C21_Witness ==
    /\ last.op = "suite"
    /\ last.exc = "none"
    /\ last.sizes = <<MaxSize, 2>>
    /\ ItemFails("fibonacci", MaxSize)
    /\ Keys(last.ret[1].entries) = {2}
    /\ Keys(last.ret[2].entries) = {MaxSize, 2}
    /\ Len(last.ret[10].entries[1].value.data) = MaxSize

\* ------------------------------------------------------------------------
\* More claims about the validation suite (checked under Spec)
\* ------------------------------------------------------------------------

\* C22: a validate_transformation call that raises leaves the results list,
\* and the records it holds, exactly as they were before the call.
C22_FailedCallLeavesResults ==
    [][(ops' = ops + 1 /\ last'.op = "validate" /\ last'.exc # "none")
          => (results' = results /\ heap' = heap)]_vars

\* C22 witness: a call that raised was made on a suite holding one record,
\* and the list still holds that record only.
C22_Witness ==
    /\ ops = 2
    /\ last.op = "validate"
    /\ last.exc = "ValueError"
    /\ Len(results) = 1
    /\ heap[results[1]].dataset_size = 2

\* after a completed run on a fresh suite, every entry of results carries
\* its tags and _organize_results() gives what the run returned
RunIsOrganized ==
    /\ \A i \in 1..Len(results) :
          heap[results[i]].pattern # Absent /\ heap[results[i]].size # Absent
    /\ \A k \in 1..Len(organize_results(heap, results)) :
          organize_results(heap, results)[k].pattern # "unknown"
    /\ organize_results(heap, results) = last.ret

\* C23 as stated: after any completed run on a fresh suite, every entry of
\* results is tagged, none is grouped under 'unknown' and _organize_results()
\* returns the mapping the run returned, in the same order.
C23_OrganizeGivesRunResult ==
    last.op = "run" /\ last.exc = "none" /\ ops = 1 => RunIsOrganized

\* C23 amended: the same, for a run over at least one size (a run over no
\* size returns the four patterns with empty lists, _organize_results() an
\* empty mapping).
C23_OrganizeGivesRunResultOverSizes ==
    last.op = "run" /\ last.exc = "none" /\ ops = 1 /\ Len(last.sizes) > 0
        => RunIsOrganized

\* C23 witness: a completed run over two sizes on a fresh suite left eight
\* tagged records, grouped by _organize_results() as the run returned them.
C23_Witness ==
    /\ last.op = "run"
    /\ last.exc = "none"
    /\ ops = 1
    /\ last.sizes = <<3, 2>>
    /\ Len(results) = 8
    /\ RunIsOrganized
    /\ Len(organize_results(heap, results)) = 4

====
